---- MODULE Spec2Model ----
(***************************************************************************)
(* A model of the VantageVision backend (src/server.js): the Session and   *)
(* Clip collections, the video store, the temp_uploads directory, the      *)
(* request handlers as interleaved step machines (one step per await), the *)
(* model-fallback invoker and the roster merge.                            *)
(*                                                                         *)
(* Sequences are 1-based here and 0-based in the source: FindIndex returns *)
(* 0 where Array.prototype.findIndex returns -1.                           *)
(***************************************************************************)
EXTENDS Integers, Sequences, FiniteSets, TLC

VARIABLES
    now,        \* Date.now(), in milliseconds since the process started
    sessions,   \* the Session collection, in insertion order
    clips,      \* the Clip collection, in insertion order
    videos,     \* public ids of the videos held by the video store
    files,      \* temp_uploads: path -> contents (0: no such file)
    reqs,       \* the requests: handler, caller, body, position, locals
    fb,         \* one run of generateWithFallback, iteration by iteration
    lastMerge   \* the analysis result last merged into a roster

vars == <<now, sessions, clips, videos, files, reqs, fb, lastMerge>>

(***************************************************************************)
(* Bounds of the model.                                                    *)
(***************************************************************************)
MaxClock == 1
MaxNotes == 3
MaxPlayers == 2

(***************************************************************************)
(* Values.                                                                 *)
(***************************************************************************)
Undefined == "undefined"

Min(S) == CHOOSE x \in S : \A y \in S : x <= y

RECURSIVE SeqsUpTo(_, _)
SeqsUpTo(S, n) ==
    IF n = 0 THEN {<<>>}
    ELSE LET shorter == SeqsUpTo(S, n - 1)
         IN  shorter \cup {Append(s, x) : s \in {q \in shorter : Len(q) = n - 1}, x \in S}

(***************************************************************************)
(* The texts a model can answer with, and JSON.parse on them.  A text is   *)
(* either not JSON at all, or the serialisation of a JSON value; a value   *)
(* is null, a number, or an object whose members title, data and           *)
(* players_detected may each be missing.                                   *)
(***************************************************************************)
NoData == [kind |-> "undefined"]
Formations(o, d) == [o_formation |-> o, d_formation |-> d]

JsonNull == [kind |-> "null"]
JsonNumber == [kind |-> "number"]
JsonObject(title, data, summary, players) ==
    [kind |-> "object", title |-> title, data |-> data,
     summary |-> summary, players_detected |-> players]

Player(identifier, grade, weakness) ==
    [identifier |-> identifier, position |-> "Pos", grade |-> grade,
     observation |-> "Note", weakness |-> weakness]

\* the players an analysis result can list; an empty weakness is a missing one
DetectedPlayers ==
    {Player("QB 12", "B", ""), Player("QB 12", "C", "late hands"),
     Player("WR 80", "B", "false step")}

PlayerLists == SeqsUpTo(DetectedPlayers, MaxPlayers)

\* a text that is no JSON, the serialisation of a value, and the same inside a
\* ```json ... ``` fence
Plain(str) == [json |-> FALSE, fenced |-> FALSE, value |-> [kind |-> "text", str |-> str]]
TextGarbage == Plain("I could not analyze this clip")
TextOf(value) == [json |-> TRUE, fenced |-> FALSE, value |-> value]
Fenced(value) == [json |-> TRUE, fenced |-> TRUE, value |-> value]

JSONstringify(value) == TextOf(value)

\* JSON.parse: a value, or a SyntaxError
JSONparse(text) ==
    IF text.json /\ ~text.fenced THEN [threw |-> FALSE, value |-> text.value]
    ELSE [threw |-> TRUE, value |-> JsonNull]

\* text.replace(/```json/g, '').replace(/```/g, '').trim()
StripFences(text) == [text EXCEPT !.fenced = FALSE]

(***************************************************************************)
(* generateWithFallback.  The environment's part is the outcome of each    *)
(* generateContent call: a response text, or an error with a message.      *)
(***************************************************************************)
MODEL_FALLBACK_LIST == <<"gemini-2.5-pro", "gemini-2.5-flash", "gemini-2.0-flash">>

ErrorMessages == {"429 quota", "503 overloaded"}

Success(text) == [ok |-> TRUE, text |-> text, message |-> ""]
Failure(message) == [ok |-> FALSE, text |-> TextGarbage, message |-> message]

PromptKinds == {"text", "clip", "video"}

FbStart(promptParts) ==
    [promptParts |-> promptParts, idx |-> 1, lastError |-> Undefined,
     calls |-> <<>>, status |-> "running",
     result |-> [model |-> "", text |-> TextGarbage], error |-> <<>>]

\* a faulty variant of FbIterate: the first failure's error is kept, not the last
FbIterateKeepsFirstError(st, outcome) ==
    LET call == [model |-> MODEL_FALLBACK_LIST[st.idx], outcome |-> outcome]
    IN  IF outcome.ok
        THEN [st EXCEPT !.calls = Append(@, call), !.status = "returned",
                        !.result = [model |-> call.model, text |-> outcome.text]]
        ELSE [st EXCEPT !.calls = Append(@, call), !.idx = @ + 1,
                        !.lastError = IF @ = Undefined THEN outcome.message ELSE @]

\* one iteration of the for loop: try { generateContent; return } catch { lastError = error }
FbIterate(st, outcome) ==
    LET call == [model |-> MODEL_FALLBACK_LIST[st.idx], outcome |-> outcome]
    IN  IF outcome.ok
        THEN [st EXCEPT !.calls = Append(@, call), !.status = "returned",
                        !.result = [model |-> call.model, text |-> outcome.text]]
        ELSE [st EXCEPT !.calls = Append(@, call), !.idx = @ + 1,
                        !.lastError = outcome.message]

\* the throw after the loop
FbThrow(st) ==
    [st EXCEPT !.status = "thrown",
               !.error = <<"Analysis failed. Last error: ", st.lastError>>]

RECURSIVE FbRun(_, _)
FbRun(st, outcomes) ==
    IF st.idx > Len(MODEL_FALLBACK_LIST) THEN FbThrow(st)
    ELSE LET next == FbIterate(st, outcomes[st.idx])
         IN  IF next.status = "returned" THEN next ELSE FbRun(next, outcomes)

generateWithFallback(promptParts, outcomes) == FbRun(FbStart(promptParts), outcomes)

(***************************************************************************)
(* The roster of a session and the merge of an analysis result into it.    *)
(***************************************************************************)
\* Array.prototype.findIndex on the identifier: the first match, or 0 for none
FindIndex(roster, identifier) ==
    LET hits == {i \in 1..Len(roster) : roster[i].identifier = identifier}
    IN  IF hits = {} THEN 0 ELSE Min(hits)

Truthy(str) == str # "" /\ str # Undefined

NewProfile(p, t) ==
    [identifier |-> p.identifier, position |-> p.position, grade |-> p.grade,
     notes |-> <<p.observation>>,
     weaknesses |-> IF Truthy(p.weakness) THEN <<p.weakness>> ELSE <<>>,
     last_updated |-> t]

\* a faulty variant of MergePlayer: no lookup, every detected player is pushed
MergePlayerAlwaysPushes(roster, p, t) ==
    Append(roster, NewProfile(p, t))

\* the body of the loop over players_detected
MergePlayer(roster, p, t) ==
    LET idx == FindIndex(roster, p.identifier)
    IN  IF idx > 0
        THEN [roster EXCEPT
                 ![idx].grade = p.grade,
                 ![idx].notes = Append(@, p.observation),
                 ![idx].weaknesses = IF Truthy(p.weakness) THEN Append(@, p.weakness) ELSE @,
                 ![idx].last_updated = t]
        ELSE Append(roster, NewProfile(p, t))

RECURSIVE MergeRoster(_, _, _)
MergeRoster(roster, players, t) ==
    IF players = <<>> THEN roster
    ELSE MergeRoster(MergePlayer(roster, Head(players), t), Tail(players), t)

Suffix(s, n) == SubSeq(s, n + 1, Len(s))

\* session.save(): the document's changes since it was loaded (old), applied to the
\* stored roster (db): $set of a changed grade and timestamp, $push of the new notes
\* and weaknesses, $push of the new profiles
SaveRoster(db, old, new) ==
    [i \in 1..Len(db) |->
        IF i <= Len(old) /\ new[i] # old[i]
        THEN [db[i] EXCEPT
                 !.grade = new[i].grade,
                 !.notes = @ \o Suffix(new[i].notes, Len(old[i].notes)),
                 !.weaknesses = @ \o Suffix(new[i].weaknesses, Len(old[i].weaknesses)),
                 !.last_updated = new[i].last_updated]
        ELSE db[i]]
    \o Suffix(new, Len(old))

NotesWithin(roster, n) == \A i \in 1..Len(roster) : Len(roster[i].notes) <= n

(***************************************************************************)
(* The collections.                                                        *)
(***************************************************************************)
Users == {"userA", "userB"}

SessionIdAt(t) == <<"sess_", t>>

NewSession(id, owner, t) ==
    [id |-> id, sessionId |-> SessionIdAt(t), owner |-> owner,
     title |-> "New Session", type |-> "team", sport |-> "football",
     history |-> <<>>, roster |-> <<>>]

\* the index of the first document matching, 0 for none (findOne, updateOne, deleteOne)
\* the documents of a collection; a filter selects some of them
Docs(coll) == {coll[i] : i \in 1..Len(coll)}

FirstMatch(coll, matching) ==
    LET hits == {i \in 1..Len(coll) : coll[i] \in matching}
    IN  IF hits = {} THEN 0 ELSE Min(hits)

Remove(coll, matching) == SelectSeq(coll, LAMBDA d : d \notin matching)

RemoveFirst(coll, matching) ==
    LET i == FirstMatch(coll, matching)
    IN  IF i = 0 THEN coll ELSE SubSeq(coll, 1, i - 1) \o SubSeq(coll, i + 1, Len(coll))

(***************************************************************************)
(* generateWithFallback on its own: the outcomes of the generateContent    *)
(* calls are the environment's.                                            *)
(***************************************************************************)
ResponseTexts ==
    {TextGarbage, TextOf(JsonNull), TextOf(JsonNumber),
     TextOf(JsonObject(Undefined, NoData, "Narrative", <<>>)),
     Fenced(JsonObject("Play", Formations("Set", "Shell"), "Narrative",
                       <<Player("QB 12", "C", "late hands")>>))}

Outcomes == {Success(t) : t \in ResponseTexts} \cup {Failure(m) : m \in ErrorMessages}

\* every run of generateWithFallback, over the outcomes its calls can have
FallbackRuns(promptParts) ==
    {generateWithFallback(promptParts, outcomes) :
        outcomes \in [1..Len(MODEL_FALLBACK_LIST) -> Outcomes]}

TextRuns == FallbackRuns("text")
ClipRuns == FallbackRuns("clip")
VideoRuns == FallbackRuns("video")

Idle == [promptParts |-> "", idx |-> 0, lastError |-> Undefined,
         calls |-> <<>>, status |-> "idle",
         result |-> [model |-> "", text |-> TextGarbage], error |-> <<>>]

NoMerge == [players |-> <<>>, before |-> <<>>, at |-> 0, session |-> 0]

InitFallback ==
    /\ now = 0
    /\ sessions = <<>>
    /\ clips = <<>>
    /\ videos = {}
    /\ files = [p \in 0..MaxClock |-> 0]
    /\ reqs = <<>>
    /\ fb \in {FbStart(p) : p \in PromptKinds}
    /\ lastMerge = NoMerge

FbCall ==
    /\ fb.status = "running"
    /\ fb.idx <= Len(MODEL_FALLBACK_LIST)
    /\ \E outcome \in Outcomes : fb' = FbIterate(fb, outcome)
    /\ UNCHANGED <<now, sessions, clips, videos, files, reqs, lastMerge>>

FbExhausted ==
    /\ fb.status = "running"
    /\ fb.idx > Len(MODEL_FALLBACK_LIST)
    /\ fb' = FbThrow(fb)
    /\ UNCHANGED <<now, sessions, clips, videos, files, reqs, lastMerge>>

NextFallback == FbCall \/ FbExhausted

SpecFallback == InitFallback /\ [][NextFallback]_vars

(***************************************************************************)
(* Analyses applied one after another to one session: each loads the       *)
(* session, merges its detected players and saves.                         *)
(***************************************************************************)
InitRoster ==
    /\ now = 0
    /\ sessions = <<NewSession(1, "userA", 0)>>
    /\ clips = <<>>
    /\ videos = {}
    /\ files = [p \in 0..MaxClock |-> 0]
    /\ reqs = <<>>
    /\ fb = Idle
    /\ lastMerge = NoMerge

Tick ==
    /\ now < MaxClock
    /\ now' = now + 1
    /\ UNCHANGED <<sessions, clips, videos, files, reqs, fb, lastMerge>>

ApplyAnalysis ==
    \E players \in PlayerLists \ {<<>>} :
        LET loaded == sessions[1].roster
            merged == MergeRoster(loaded, players, now)
        IN  /\ NotesWithin(merged, MaxNotes)
            /\ sessions' = [sessions EXCEPT ![1].roster = SaveRoster(@, loaded, merged)]
            /\ lastMerge' = [players |-> players, before |-> loaded, at |-> now, session |-> 1]
            /\ UNCHANGED <<now, clips, videos, files, reqs, fb>>

NextRoster == Tick \/ ApplyAnalysis

SpecRoster == InitRoster /\ [][NextRoster]_vars

(***************************************************************************)
(* C2.  generateWithFallback calls the identifiers of MODEL_FALLBACK_LIST  *)
(* in list order, each at most once, and stops at the first success: every *)
(* call but the last has failed; when it returns, the last call succeeded  *)
(* and the result is that call's response; when it throws, every           *)
(* identifier of the list was called and failed, and the message is        *)
(* "Analysis failed. Last error: " followed by the message of the failure  *)
(* of the last identifier of the list.                                     *)
(***************************************************************************)
FallbackInListOrder ==
    LET n == Len(fb.calls)
    IN  /\ n <= Len(MODEL_FALLBACK_LIST)
        /\ \A i \in 1..n : fb.calls[i].model = MODEL_FALLBACK_LIST[i]
        /\ \A i \in 1..(n - 1) : ~fb.calls[i].outcome.ok
        /\ fb.status = "running" => \A i \in 1..n : ~fb.calls[i].outcome.ok
        /\ fb.status = "returned" =>
              /\ n >= 1
              /\ fb.calls[n].outcome.ok
              /\ fb.result = [model |-> MODEL_FALLBACK_LIST[n],
                              text |-> fb.calls[n].outcome.text]
        /\ fb.status = "thrown" =>
              /\ n = Len(MODEL_FALLBACK_LIST)
              /\ ~fb.calls[n].outcome.ok
              /\ fb.error = <<"Analysis failed. Last error: ", fb.calls[n].outcome.message>>

\* every identifier failed, the first and the last with different messages
FallbackExhaustedWitness ==
    /\ fb.status = "thrown"
    /\ Len(fb.calls) = 3
    /\ fb.calls[1].outcome.message # fb.calls[3].outcome.message

(***************************************************************************)
(* C3.  After analyses applied one after another to a session, the roster  *)
(* holds at most one entry per identifier, and the last merge did this:    *)
(* each entry the roster had whose identifier the result lists has the     *)
(* grade of the last such player, the observations appended to its notes   *)
(* in order, the non-empty weaknesses appended to its weaknesses, and the  *)
(* time of the merge as its timestamp; every other entry is unchanged; the *)
(* roster grew by one entry per identifier it did not have, built from the *)
(* players of the result with that identifier.                             *)
(***************************************************************************)
RosterIds(roster) == {roster[i].identifier : i \in 1..Len(roster)}

OnePerIdentifier(roster) ==
    \A i, j \in 1..Len(roster) : roster[i].identifier = roster[j].identifier => i = j

RosterMergedByIdentifier ==
    LET after == sessions[1].roster
        before == lastMerge.before
        players == lastMerge.players
        Of(id) == SelectSeq(players, LAMBDA p : p.identifier = id)
        Obs(ps) == [i \in 1..Len(ps) |-> ps[i].observation]
        Weak(ps) == LET w == SelectSeq(ps, LAMBDA p : Truthy(p.weakness))
                    IN  [i \in 1..Len(w) |-> w[i].weakness]
        added == RosterIds(players) \ RosterIds(before)
    IN  /\ OnePerIdentifier(after)
        /\ Len(after) = Len(before) + Cardinality(added)
        /\ \A i \in 1..Len(before) :
              LET ps == Of(before[i].identifier)
              IN  IF ps = <<>> THEN after[i] = before[i]
                  ELSE after[i] = [before[i] EXCEPT
                                      !.grade = ps[Len(ps)].grade,
                                      !.notes = @ \o Obs(ps),
                                      !.weaknesses = @ \o Weak(ps),
                                      !.last_updated = lastMerge.at]
        /\ \A j \in (Len(before) + 1)..Len(after) :
              LET ps == Of(after[j].identifier)
              IN  /\ after[j].identifier \in added
                  /\ after[j] = [identifier |-> ps[1].identifier,
                                 position |-> ps[1].position,
                                 grade |-> ps[Len(ps)].grade,
                                 notes |-> Obs(ps), weaknesses |-> Weak(ps),
                                 last_updated |-> lastMerge.at]

\* a result that lists an identifier the roster has, twice, and one it has not
RosterMergeWitness ==
    /\ Len(lastMerge.players) = 2
    /\ lastMerge.players[1].identifier = lastMerge.players[2].identifier
    /\ lastMerge.players[1].identifier \in RosterIds(lastMerge.before)
    /\ Len(sessions[1].roster) = 1
    /\ lastMerge.at > 0

(***************************************************************************)
(* Requests.  A request is at the await it is suspended on (pc); a step    *)
(* is the completion of that await and the synchronous code up to the next *)
(* one.  Every awaited call may also reject, which lands in the handler's  *)
(* catch block.                                                            *)
(***************************************************************************)
MaxRequests == 2

ReqIds == 1..MaxRequests

NoSession == [id |-> 0]
NoClip == [id |-> 0]
NoPath == -1

NewReq ==
    [handler |-> "none", user |-> "", pc |-> "new", sessionId |-> <<>>, clipId |-> 0,
     tempPath |-> NoPath, publicId |-> 0, savedClip |-> 0, fileState |-> "none",
     session |-> NoSession, loaded |-> <<>>, clip |-> NoClip, found |-> <<>>,
     text |-> Plain(""), json |-> JsonNull,
     invoked |-> FALSE, error |-> <<>>, status |-> 0]

Started(r) == reqs[r].pc # "new"
Responded(r) == reqs[r].status # 0
CanStart(r) == reqs[r].pc = "new" /\ (IF r = 1 THEN TRUE ELSE Started(r - 1))

\* the jump to the catch block; the session document is not used again
Throw(req, message) ==
    [req EXCEPT !.pc = "catch", !.error = message, !.session = NoSession, !.loaded = <<>>]
DbError == <<"database error">>

OthersUnchanged == UNCHANGED <<now, fb, lastMerge>>

\* Session.updateOne({ sessionId }, { $push: { history: entry } })
PushHistory(coll, sessionId, entry) ==
    LET i == FirstMatch(coll, {d \in Docs(coll) : d.sessionId = sessionId})
    IN  IF i = 0 THEN coll ELSE [coll EXCEPT ![i].history = Append(@, entry)]

(***************************************************************************)
(* POST /api/chat                                                          *)
(***************************************************************************)
PlaceholderClip(id, owner, sessionId, publicId) ==
    [id |-> id, owner |-> owner, sessionId |-> sessionId, sport |-> "football",
     title |-> "Analyzing...", formation |-> <<"...">>,
     o_formation |-> Undefined, d_formation |-> Undefined, section |-> "Inbox",
     publicId |-> publicId, geminiFileUri |-> Undefined, fullData |-> NoData,
     chatHistory |-> <<>>, snapshots |-> <<>>]

ErrorPayload ==
    JsonObject("Analysis Error", Formations("Error", "Error"),
               "The AI analysis could not be processed. Please try again.", <<>>)

\* a faulty variant of ParseAnalysis: a text that does not parse is taken for an empty object
ParseAnalysisEmptyOnError(text) ==
    LET parsed == JSONparse(text)
    IN  IF parsed.threw \/ parsed.value.kind = "null"
        THEN JsonObject(Undefined, Formations("Unknown", "Unknown"), Undefined, <<>>)
        ELSE IF parsed.value.kind = "number" THEN parsed.value
        ELSE IF parsed.value.data = NoData
        THEN [parsed.value EXCEPT !.data = Formations("Unknown", "Unknown")]
        ELSE parsed.value

\* try { json = JSON.parse(text); if (!json.data) json.data = {...} } catch { json = {...} }
\* null throws on json.data inside the try; a number has no members and keeps none
ParseAnalysis(text) ==
    LET parsed == JSONparse(text)
    IN  IF parsed.threw \/ parsed.value.kind = "null" THEN ErrorPayload
        ELSE IF parsed.value.kind = "number" THEN parsed.value
        ELSE IF parsed.value.data = NoData
        THEN [parsed.value EXCEPT !.data = Formations("Unknown", "Unknown")]
        ELSE parsed.value

\* a faulty variant of AfterGetFile: the FAILED state is not checked
AfterGetFileIgnoresFailed(state) ==
    IF state = "PROCESSING" THEN "wait" ELSE "findSession"

\* while (file.state === PROCESSING) {...}; if (file.state === FAILED) throw
AfterGetFile(state) ==
    IF state = "PROCESSING" THEN "wait"
    ELSE IF state = "FAILED" THEN "catch"
    ELSE "findSession"

FileStates == {"PROCESSING", "ACTIVE", "FAILED"}

\* fs.unlink(path).catch(console.error)
Unlink(fs, path) == [fs EXCEPT ![path] = 0]

\* a faulty variant of CatchUnlink: the catch block leaves the file
CatchUnlinkForgets(fs, tempPath) == fs

\* if (tempPath) await fs.unlink(tempPath).catch(console.error)
CatchUnlink(fs, tempPath) == IF tempPath # NoPath THEN Unlink(fs, tempPath) ELSE fs

(***************************************************************************)
(* The database the requests start from: a state the service reaches after *)
(* each user created a session before the clock's origin and userA         *)
(* uploaded two videos, one analysed, one whose request failed at the poll. *)
(***************************************************************************)
SeedAnalysis == JsonObject("Play", Formations("Set", "Shell"), "Narrative", <<>>)

\* userA's session holds an analysed clip and one left by a request that failed
SeedSessions ==
    <<[NewSession(1, "userA", -2) EXCEPT
          !.history = <<[role |-> "user", text |-> Plain("Uploaded Video Analysis")],
                        [role |-> "model", text |-> JSONstringify(SeedAnalysis)]>>],
      NewSession(2, "userB", -1)>>

SeedClips ==
    <<[PlaceholderClip(101, "userA", SessionIdAt(-2), 101) EXCEPT
          !.title = "Play", !.o_formation = "Set", !.d_formation = "Shell",
          !.formation = <<"Set", " vs ", "Shell">>, !.fullData = SeedAnalysis,
          !.geminiFileUri = "uri"],
      PlaceholderClip(102, "userA", SessionIdAt(-2), 102)>>

KnownSessionIds == {SeedSessions[i].sessionId : i \in 1..Len(SeedSessions)}
KnownClipIds == {SeedClips[i].id : i \in 1..Len(SeedClips)}

ChatStart(r) ==
    /\ CanStart(r)
    /\ \E user \in Users, sessionId \in KnownSessionIds, hasFile \in BOOLEAN :
          reqs' = [reqs EXCEPT ![r] =
                      [@ EXCEPT !.handler = "chat", !.user = user, !.sessionId = sessionId,
                                !.pc = IF hasFile THEN "writeFile" ELSE "pushUser",
                                !.tempPath = IF hasFile THEN now ELSE NoPath]]
    /\ UNCHANGED <<sessions, clips, videos, files>>
    /\ OthersUnchanged

ChatPushUser(r) ==
    /\ reqs[r].handler = "chat" /\ reqs[r].pc = "pushUser"
    /\ \/ /\ sessions' = PushHistory(sessions, reqs[r].sessionId,
                                     [role |-> "user", text |-> Plain("message")])
          /\ reqs' = [reqs EXCEPT ![r].pc = "generate"]
       \/ /\ reqs' = [reqs EXCEPT ![r] = Throw(@, DbError)]
          /\ UNCHANGED sessions
    /\ UNCHANGED <<clips, videos, files>>
    /\ OthersUnchanged

ChatGenerate(r) ==
    /\ reqs[r].handler = "chat" /\ reqs[r].pc = "generate"
    /\ \E g \in TextRuns :
          LET req == [reqs[r] EXCEPT !.invoked = g.calls # <<>>]
          IN  reqs' = [reqs EXCEPT ![r] =
                          IF g.status = "thrown" THEN Throw(req, g.error)
                          ELSE [req EXCEPT !.pc = "pushModel", !.text = g.result.text]]
    /\ UNCHANGED <<sessions, clips, videos, files>>
    /\ OthersUnchanged

ChatPushModel(r) ==
    /\ reqs[r].handler = "chat" /\ reqs[r].pc = "pushModel"
    /\ \/ /\ sessions' = PushHistory(sessions, reqs[r].sessionId,
                                     [role |-> "model", text |-> reqs[r].text])
          /\ reqs' = [reqs EXCEPT ![r].pc = "done", ![r].status = 200]
       \/ /\ reqs' = [reqs EXCEPT ![r] = Throw(@, DbError)]
          /\ UNCHANGED sessions
    /\ UNCHANGED <<clips, videos, files>>
    /\ OthersUnchanged

VideoWriteFile(r) ==
    /\ reqs[r].handler = "chat" /\ reqs[r].pc = "writeFile"
    /\ \/ /\ files' = [files EXCEPT ![reqs[r].tempPath] = r]
          /\ reqs' = [reqs EXCEPT ![r].pc = "upload"]
       \/ /\ reqs' = [reqs EXCEPT ![r] = Throw(@, <<"ENOSPC">>)]
          /\ UNCHANGED files
    /\ UNCHANGED <<sessions, clips, videos>>
    /\ OthersUnchanged

\* Promise.all of the two uploads of the file at tempPath; the video store's public id
\* is the request's number
VideoUpload(r) ==
    /\ reqs[r].handler = "chat" /\ reqs[r].pc = "upload"
    /\ IF files[reqs[r].tempPath] = 0
       THEN /\ reqs' = [reqs EXCEPT ![r] = Throw(@, <<"ENOENT">>)]
            /\ UNCHANGED videos
       ELSE \E cloudOk, ingestOk \in BOOLEAN :
               /\ videos' = IF cloudOk THEN videos \cup {r} ELSE videos
               /\ reqs' = [reqs EXCEPT ![r] =
                              IF cloudOk /\ ingestOk
                              THEN [@ EXCEPT !.pc = "createClip", !.publicId = r]
                              ELSE Throw(@, <<"upload failed">>)]
    /\ UNCHANGED <<sessions, clips, files>>
    /\ OthersUnchanged

VideoCreateClip(r) ==
    /\ reqs[r].handler = "chat" /\ reqs[r].pc = "createClip"
    /\ \/ /\ clips' = Append(clips, PlaceholderClip(r, reqs[r].user, reqs[r].sessionId,
                                                    reqs[r].publicId))
          /\ reqs' = [reqs EXCEPT ![r].pc = "getFile", ![r].savedClip = r]
       \/ /\ reqs' = [reqs EXCEPT ![r] = Throw(@, DbError)]
          /\ UNCHANGED clips
    /\ UNCHANGED <<sessions, videos, files>>
    /\ OthersUnchanged

VideoGetFile(r) ==
    /\ reqs[r].handler = "chat" /\ reqs[r].pc = "getFile"
    /\ \/ \E state \in FileStates :
             reqs' = [reqs EXCEPT ![r] =
                         IF AfterGetFile(state) = "catch"
                         THEN Throw([@ EXCEPT !.fileState = state],
                                    <<"Video processing failed at Google.">>)
                         ELSE [@ EXCEPT !.fileState = state, !.pc = AfterGetFile(state)]]
       \/ reqs' = [reqs EXCEPT ![r] = Throw(@, <<"getFile failed">>)]
    /\ UNCHANGED <<sessions, clips, videos, files>>
    /\ OthersUnchanged

\* await new Promise(r => setTimeout(r, 2000))
VideoWait(r) ==
    /\ reqs[r].handler = "chat" /\ reqs[r].pc = "wait"
    /\ reqs' = [reqs EXCEPT ![r].pc = "getFile"]
    /\ UNCHANGED <<sessions, clips, videos, files>>
    /\ OthersUnchanged

VideoFindSession(r) ==
    /\ reqs[r].handler = "chat" /\ reqs[r].pc = "findSession"
    /\ \/ LET i == FirstMatch(sessions,
                       {d \in Docs(sessions) : d.sessionId = reqs[r].sessionId
                                            /\ d.owner = reqs[r].user})
          IN  reqs' = [reqs EXCEPT ![r] =
                          IF i = 0
                          THEN Throw(@, <<"Cannot read properties of null (reading 'roster')">>)
                          ELSE [@ EXCEPT !.pc = "analyze", !.session = sessions[i],
                                         !.loaded = sessions[i].roster]]
       \/ reqs' = [reqs EXCEPT ![r] = Throw(@, DbError)]
    /\ UNCHANGED <<sessions, clips, videos, files>>
    /\ OthersUnchanged

VideoAnalyze(r) ==
    /\ reqs[r].handler = "chat" /\ reqs[r].pc = "analyze"
    /\ \E g \in VideoRuns :
          LET req == [reqs[r] EXCEPT !.invoked = g.calls # <<>>]
              json == ParseAnalysis(StripFences(g.result.text))
              parsed == [req EXCEPT !.text = g.result.text, !.json = json]
          IN  reqs' = [reqs EXCEPT ![r] =
                  IF g.status = "thrown" THEN Throw(req, g.error)
                  ELSE IF json.kind # "object"
                  THEN Throw(parsed,
                             <<"Cannot read properties of undefined (reading 'o_formation')">>)
                  ELSE IF json.players_detected # <<>>
                  THEN [parsed EXCEPT !.pc = "saveSession",
                                      !.session.roster =
                                          MergeRoster(@, json.players_detected, now)]
                  ELSE [parsed EXCEPT !.pc = "saveClip", !.session = NoSession,
                                      !.loaded = <<>>]]
    /\ UNCHANGED <<sessions, clips, videos, files>>
    /\ OthersUnchanged

VideoSaveSession(r) ==
    /\ reqs[r].handler = "chat" /\ reqs[r].pc = "saveSession"
    /\ \/ LET i == FirstMatch(sessions, {d \in Docs(sessions) : d.id = reqs[r].session.id})
          IN  IF i = 0
              THEN /\ reqs' = [reqs EXCEPT ![r] = Throw(@, <<"DocumentNotFoundError">>)]
                   /\ UNCHANGED sessions
              ELSE /\ sessions' = [sessions EXCEPT ![i].roster =
                                      SaveRoster(@, reqs[r].loaded, reqs[r].session.roster)]
                   /\ reqs' = [reqs EXCEPT ![r].pc = "saveClip", ![r].session = NoSession,
                                           ![r].loaded = <<>>]
       \/ /\ reqs' = [reqs EXCEPT ![r] = Throw(@, DbError)]
          /\ UNCHANGED sessions
    /\ UNCHANGED <<clips, videos, files>>
    /\ OthersUnchanged

\* savedClip.title = ...; ...; await savedClip.save()
VideoSaveClip(r) ==
    /\ reqs[r].handler = "chat" /\ reqs[r].pc = "saveClip"
    /\ \/ LET i == FirstMatch(clips, {d \in Docs(clips) : d.id = reqs[r].savedClip})
              json == reqs[r].json
          IN  IF i = 0
              THEN /\ reqs' = [reqs EXCEPT ![r] = Throw(@, <<"DocumentNotFoundError">>)]
                   /\ UNCHANGED clips
              ELSE /\ clips' = [clips EXCEPT ![i] =
                          [@ EXCEPT !.title = IF Truthy(json.title) THEN json.title
                                              ELSE "Untitled Clip",
                                    !.o_formation = json.data.o_formation,
                                    !.d_formation = json.data.d_formation,
                                    !.formation = <<json.data.o_formation, " vs ",
                                                    json.data.d_formation>>,
                                    !.fullData = json,
                                    !.geminiFileUri = "uri"]]
                   /\ reqs' = [reqs EXCEPT ![r].pc = "historyUser"]
       \/ /\ reqs' = [reqs EXCEPT ![r] = Throw(@, DbError)]
          /\ UNCHANGED clips
    /\ UNCHANGED <<sessions, videos, files>>
    /\ OthersUnchanged

VideoHistoryUser(r) ==
    /\ reqs[r].handler = "chat" /\ reqs[r].pc = "historyUser"
    /\ \/ /\ sessions' = PushHistory(sessions, reqs[r].sessionId,
                                     [role |-> "user", text |-> Plain("Uploaded Video Analysis")])
          /\ reqs' = [reqs EXCEPT ![r].pc = "historyModel"]
       \/ /\ reqs' = [reqs EXCEPT ![r] = Throw(@, DbError)]
          /\ UNCHANGED sessions
    /\ UNCHANGED <<clips, videos, files>>
    /\ OthersUnchanged

VideoHistoryModel(r) ==
    /\ reqs[r].handler = "chat" /\ reqs[r].pc = "historyModel"
    /\ \/ /\ sessions' = PushHistory(sessions, reqs[r].sessionId,
                                     [role |-> "model", text |-> JSONstringify(reqs[r].json)])
          /\ reqs' = [reqs EXCEPT ![r].pc = "unlink"]
       \/ /\ reqs' = [reqs EXCEPT ![r] = Throw(@, DbError)]
          /\ UNCHANGED sessions
    /\ UNCHANGED <<clips, videos, files>>
    /\ OthersUnchanged

\* await fs.unlink(tempPath).catch(console.error); res.json({ reply, newClip })
VideoUnlink(r) ==
    /\ reqs[r].handler = "chat" /\ reqs[r].pc = "unlink"
    /\ files' = Unlink(files, reqs[r].tempPath)
    /\ reqs' = [reqs EXCEPT ![r].pc = "done", ![r].status = 200]
    /\ UNCHANGED <<sessions, clips, videos>>
    /\ OthersUnchanged

\* catch (e) { if (tempPath) await fs.unlink(tempPath)...; res.status(500).json(...) }
ChatCatch(r) ==
    /\ reqs[r].handler = "chat" /\ reqs[r].pc = "catch"
    /\ files' = CatchUnlink(files, reqs[r].tempPath)
    /\ reqs' = [reqs EXCEPT ![r].pc = "done", ![r].status = 500]
    /\ UNCHANGED <<sessions, clips, videos>>
    /\ OthersUnchanged

ChatStep(r) ==
    \/ ChatPushUser(r) \/ ChatGenerate(r) \/ ChatPushModel(r)
    \/ VideoWriteFile(r) \/ VideoUpload(r) \/ VideoCreateClip(r)
    \/ VideoGetFile(r) \/ VideoWait(r) \/ VideoFindSession(r)
    \/ VideoAnalyze(r) \/ VideoSaveSession(r) \/ VideoSaveClip(r)
    \/ VideoHistoryUser(r) \/ VideoHistoryModel(r) \/ VideoUnlink(r)
    \/ ChatCatch(r)

(***************************************************************************)
(* The other handlers.  Their catch blocks hold no await: a rejected call  *)
(* answers at once.                                                        *)
(***************************************************************************)
Respond(req, status) ==
    [req EXCEPT !.pc = "done", !.status = status, !.session = NoSession,
                !.loaded = <<>>, !.clip = NoClip, !.found = <<>>]

Begin(r, handler, user, pc) ==
    [reqs[r] EXCEPT !.handler = handler, !.user = user, !.pc = pc]

\* POST /api/create-session; the document's _id is 10 + the request's number
CreateSessionStart(r) ==
    /\ CanStart(r)
    /\ \E user \in Users :
          reqs' = [reqs EXCEPT ![r] =
                      [Begin(r, "create-session", user, "create") EXCEPT
                          !.sessionId = SessionIdAt(now)]]
    /\ UNCHANGED <<sessions, clips, videos, files>>
    /\ OthersUnchanged

CreateSession(r) ==
    /\ reqs[r].handler = "create-session" /\ reqs[r].pc = "create"
    /\ \/ /\ sessions' = Append(sessions,
                                [NewSession(10 + r, reqs[r].user, 0) EXCEPT
                                    !.sessionId = reqs[r].sessionId])
          /\ reqs' = [reqs EXCEPT ![r] = Respond(@, 200)]
       \/ /\ reqs' = [reqs EXCEPT ![r] = Respond([@ EXCEPT !.error = DbError], 500)]
          /\ UNCHANGED sessions
    /\ UNCHANGED <<clips, videos, files>>
    /\ OthersUnchanged

\* GET /api/sessions, GET /api/session/:id, GET /api/search: one owner-scoped query
\* each; the catch block answers 200 with an empty result
ReadStart(r) ==
    /\ CanStart(r)
    /\ \E user \in Users, handler \in {"sessions", "session", "search"},
          sessionId \in KnownSessionIds :
          reqs' = [reqs EXCEPT ![r] =
                      [Begin(r, handler, user, "query") EXCEPT !.sessionId = sessionId]]
    /\ UNCHANGED <<sessions, clips, videos, files>>
    /\ OthersUnchanged

OwnedBy(coll, user) == SelectSeq(coll, LAMBDA d : d.owner = user)

ClipsOf(coll, sessionId, user) ==
    SelectSeq(coll, LAMBDA d : d.sessionId = sessionId /\ d.owner = user)

ReadQuery(r) ==
    /\ reqs[r].handler \in {"sessions", "session", "search"} /\ reqs[r].pc = "query"
    /\ \/ LET req == reqs[r]
              i == FirstMatch(sessions,
                       {d \in Docs(sessions) : d.sessionId = req.sessionId
                                            /\ d.owner = req.user})
              answer ==
                  CASE req.handler = "sessions" -> OwnedBy(sessions, req.user)
                    [] req.handler = "session" -> IF i = 0 THEN <<>> ELSE <<sessions[i]>>
                    [] OTHER -> ClipsOf(clips, req.sessionId, req.user)
          IN  reqs' = [reqs EXCEPT ![r] = [Respond(@, 200) EXCEPT !.found = answer]]
       \/ reqs' = [reqs EXCEPT ![r] = Respond(@, 200)]
    /\ UNCHANGED <<sessions, clips, videos, files>>
    /\ OthersUnchanged

\* POST /api/delete-session
DeleteSessionStart(r) ==
    /\ CanStart(r)
    /\ \E user \in Users, sessionId \in KnownSessionIds :
          reqs' = [reqs EXCEPT ![r] =
                      [Begin(r, "delete-session", user, "deleteOne") EXCEPT
                          !.sessionId = sessionId]]
    /\ UNCHANGED <<sessions, clips, videos, files>>
    /\ OthersUnchanged

DeleteFailed(req) == Respond([req EXCEPT !.error = <<"Delete failed">>], 500)

\* await Session.deleteOne({ sessionId, owner })
DeleteSessionDeleteOne(r) ==
    /\ reqs[r].handler = "delete-session" /\ reqs[r].pc = "deleteOne"
    /\ \/ /\ sessions' = RemoveFirst(sessions,
                             {d \in Docs(sessions) : d.sessionId = reqs[r].sessionId
                                                  /\ d.owner = reqs[r].user})
          /\ reqs' = [reqs EXCEPT ![r].pc = "findClips"]
       \/ /\ reqs' = [reqs EXCEPT ![r] = DeleteFailed(@)]
          /\ UNCHANGED sessions
    /\ UNCHANGED <<clips, videos, files>>
    /\ OthersUnchanged

\* the clips still to visit, without the leading ones that have no publicId
SkipNoVideo(todo) ==
    LET withVideo == {i \in 1..Len(todo) : todo[i].publicId # 0}
    IN  IF withVideo = {} THEN <<>> ELSE SubSeq(todo, Min(withVideo), Len(todo))

\* const clips = await Clip.find({ sessionId, owner }); for (const clip of clips) ...
DeleteSessionFind(r) ==
    /\ reqs[r].handler = "delete-session" /\ reqs[r].pc = "findClips"
    /\ \/ LET todo == SkipNoVideo(ClipsOf(clips, reqs[r].sessionId, reqs[r].user))
          IN  reqs' = [reqs EXCEPT ![r].found = todo,
                                   ![r].pc = IF todo = <<>> THEN "deleteMany" ELSE "destroy"]
       \/ reqs' = [reqs EXCEPT ![r] = DeleteFailed(@)]
    /\ UNCHANGED <<sessions, clips, videos, files>>
    /\ OthersUnchanged

\* await cloudinary.uploader.destroy(clip.publicId, ...), then the next clip
DeleteSessionDestroy(r) ==
    /\ reqs[r].handler = "delete-session" /\ reqs[r].pc = "destroy"
    /\ \/ LET todo == SkipNoVideo(Tail(reqs[r].found))
          IN  /\ videos' = videos \ {Head(reqs[r].found).publicId}
              /\ reqs' = [reqs EXCEPT ![r].found = todo,
                                      ![r].pc = IF todo = <<>> THEN "deleteMany" ELSE "destroy"]
       \/ /\ reqs' = [reqs EXCEPT ![r] = DeleteFailed(@)]
          /\ UNCHANGED videos
    /\ UNCHANGED <<sessions, clips, files>>
    /\ OthersUnchanged

\* await Clip.deleteMany({ sessionId, owner }); res.json({ success: true })
DeleteSessionDeleteMany(r) ==
    /\ reqs[r].handler = "delete-session" /\ reqs[r].pc = "deleteMany"
    /\ \/ /\ clips' = Remove(clips,
                          {d \in Docs(clips) : d.sessionId = reqs[r].sessionId
                                            /\ d.owner = reqs[r].user})
          /\ reqs' = [reqs EXCEPT ![r] = Respond(@, 200)]
       \/ /\ reqs' = [reqs EXCEPT ![r] = DeleteFailed(@)]
          /\ UNCHANGED clips
    /\ UNCHANGED <<sessions, videos, files>>
    /\ OthersUnchanged

DeleteSessionStep(r) ==
    \/ DeleteSessionDeleteOne(r) \/ DeleteSessionFind(r)
    \/ DeleteSessionDestroy(r) \/ DeleteSessionDeleteMany(r)

\* POST /api/update-clip and POST /api/save-snapshot: one owner-scoped update each
UpdateStart(r) ==
    /\ CanStart(r)
    /\ \E user \in Users, handler \in {"update-clip", "save-snapshot"},
          clipId \in KnownClipIds :
          reqs' = [reqs EXCEPT ![r] =
                      [Begin(r, handler, user, "update") EXCEPT !.clipId = clipId]]
    /\ UNCHANGED <<sessions, clips, videos, files>>
    /\ OthersUnchanged

Update(r) ==
    /\ reqs[r].handler \in {"update-clip", "save-snapshot"} /\ reqs[r].pc = "update"
    /\ \/ LET i == FirstMatch(clips,
                       {d \in Docs(clips) : d.id = reqs[r].clipId
                                         /\ d.owner = reqs[r].user})
          IN  /\ clips' = IF i = 0 THEN clips
                          ELSE IF reqs[r].handler = "update-clip"
                          THEN [clips EXCEPT ![i].section = "Film Room"]
                          ELSE [clips EXCEPT ![i].snapshots = Append(@, "image")]
              /\ reqs' = [reqs EXCEPT ![r] = Respond(@, 200)]
       \/ /\ reqs' = [reqs EXCEPT ![r] = Respond([@ EXCEPT !.error =
                                        IF reqs[r].handler = "update-clip" THEN <<"Update failed">>
                                        ELSE <<"Save failed">>], 500)]
          /\ UNCHANGED clips
    /\ UNCHANGED <<sessions, videos, files>>
    /\ OthersUnchanged

\* POST /api/update-clip-data
UpdateDataStart(r) ==
    /\ CanStart(r)
    /\ \E user \in Users, clipId \in KnownClipIds :
          reqs' = [reqs EXCEPT ![r] =
                      [Begin(r, "update-clip-data", user, "findClip") EXCEPT !.clipId = clipId]]
    /\ UNCHANGED <<sessions, clips, videos, files>>
    /\ OthersUnchanged

DataUpdateFailed(req) == Respond([req EXCEPT !.error = <<"Data Update failed">>], 500)

UpdateDataFind(r) ==
    /\ reqs[r].handler = "update-clip-data" /\ reqs[r].pc = "findClip"
    /\ \/ LET i == FirstMatch(clips,
                       {d \in Docs(clips) : d.id = reqs[r].clipId
                                         /\ d.owner = reqs[r].user})
          IN  reqs' = [reqs EXCEPT ![r] =
                          IF i = 0
                          THEN Respond([@ EXCEPT !.error = <<"Clip not found">>], 404)
                          ELSE [@ EXCEPT !.pc = "saveClip", !.clip = clips[i]]]
       \/ reqs' = [reqs EXCEPT ![r] = DataUpdateFailed(@)]
    /\ UNCHANGED <<sessions, clips, videos, files>>
    /\ OthersUnchanged

\* await clip.save(): the paths assigned are written; what was changed inside
\* fullData, a Mixed path never marked modified, is not
UpdateDataSave(r) ==
    /\ reqs[r].handler = "update-clip-data" /\ reqs[r].pc = "saveClip"
    /\ \/ LET i == FirstMatch(clips, {d \in Docs(clips) : d.id = reqs[r].clip.id})
          IN  IF i = 0
              THEN /\ reqs' = [reqs EXCEPT ![r] = DataUpdateFailed(@)]
                   /\ UNCHANGED clips
              ELSE /\ clips' = [clips EXCEPT ![i] =
                          [@ EXCEPT !.title = "Edited", !.o_formation = "Trips",
                                    !.d_formation = "Nickel",
                                    !.formation = <<"Trips", " vs ", "Nickel">>]]
                   /\ reqs' = [reqs EXCEPT ![r] = Respond(@, 200)]
       \/ /\ reqs' = [reqs EXCEPT ![r] = DataUpdateFailed(@)]
          /\ UNCHANGED clips
    /\ UNCHANGED <<sessions, videos, files>>
    /\ OthersUnchanged

\* POST /api/delete-clip
DeleteClipStart(r) ==
    /\ CanStart(r)
    /\ \E user \in Users, clipId \in KnownClipIds :
          reqs' = [reqs EXCEPT ![r] =
                      [Begin(r, "delete-clip", user, "findClip") EXCEPT !.clipId = clipId]]
    /\ UNCHANGED <<sessions, clips, videos, files>>
    /\ OthersUnchanged

DeleteClipFind(r) ==
    /\ reqs[r].handler = "delete-clip" /\ reqs[r].pc = "findClip"
    /\ \/ LET i == FirstMatch(clips,
                       {d \in Docs(clips) : d.id = reqs[r].clipId
                                         /\ d.owner = reqs[r].user})
          IN  reqs' = [reqs EXCEPT ![r] =
                          IF i = 0 THEN Respond(@, 200)
                          ELSE [@ EXCEPT !.clip = clips[i],
                                         !.pc = IF clips[i].publicId # 0 THEN "destroy"
                                                ELSE "deleteOne"]]
       \/ reqs' = [reqs EXCEPT ![r] = DeleteFailed(@)]
    /\ UNCHANGED <<sessions, clips, videos, files>>
    /\ OthersUnchanged

DeleteClipDestroy(r) ==
    /\ reqs[r].handler = "delete-clip" /\ reqs[r].pc = "destroy"
    /\ \/ /\ videos' = videos \ {reqs[r].clip.publicId}
          /\ reqs' = [reqs EXCEPT ![r].pc = "deleteOne"]
       \/ /\ reqs' = [reqs EXCEPT ![r] = DeleteFailed(@)]
          /\ UNCHANGED videos
    /\ UNCHANGED <<sessions, clips, files>>
    /\ OthersUnchanged

\* await Clip.deleteOne({ _id: req.body.id })
DeleteClipDeleteOne(r) ==
    /\ reqs[r].handler = "delete-clip" /\ reqs[r].pc = "deleteOne"
    /\ \/ /\ clips' = RemoveFirst(clips, {d \in Docs(clips) : d.id = reqs[r].clipId})
          /\ reqs' = [reqs EXCEPT ![r] = Respond(@, 200)]
       \/ /\ reqs' = [reqs EXCEPT ![r] = DeleteFailed(@)]
          /\ UNCHANGED clips
    /\ UNCHANGED <<sessions, videos, files>>
    /\ OthersUnchanged

DeleteClipStep(r) == DeleteClipFind(r) \/ DeleteClipDestroy(r) \/ DeleteClipDeleteOne(r)

(***************************************************************************)
(* POST /api/clip-chat                                                     *)
(***************************************************************************)
ClipChatStart(r) ==
    /\ CanStart(r)
    /\ \E user \in Users, clipId \in KnownClipIds :
          reqs' = [reqs EXCEPT ![r] =
                      [Begin(r, "clip-chat", user, "findClip") EXCEPT !.clipId = clipId]]
    /\ UNCHANGED <<sessions, clips, videos, files>>
    /\ OthersUnchanged

ChatFailed(req) == Respond([req EXCEPT !.error = <<"Chat failed">>], 500)

AnalysisNeeded == Plain("Analysis needed first.")

\* a faulty variant of NeedsAnalysis: a clip without analysis is let through
NeedsAnalysisOnlyIfMissing(clip) == clip = NoClip

\* if (!clip || !clip.fullData)
NeedsAnalysis(clip) == clip = NoClip \/ clip.fullData = NoData

\* $each: [{ role: 'user', text: message }, { role: 'model', text: reply }]
ChatTurns(question, reply) ==
    <<[role |-> "user", text |-> question], [role |-> "model", text |-> reply]>>

ClipChatFind(r) ==
    /\ reqs[r].handler = "clip-chat" /\ reqs[r].pc = "findClip"
    /\ \/ LET i == FirstMatch(clips,
                       {d \in Docs(clips) : d.id = reqs[r].clipId
                                         /\ d.owner = reqs[r].user})
              clip == IF i = 0 THEN NoClip ELSE clips[i]
          IN  reqs' = [reqs EXCEPT ![r] =
                          IF NeedsAnalysis(clip)
                          THEN [Respond(@, 200) EXCEPT !.text = AnalysisNeeded]
                          ELSE [@ EXCEPT !.clip = clip, !.pc = "findSession"]]
       \/ reqs' = [reqs EXCEPT ![r] = ChatFailed(@)]
    /\ UNCHANGED <<sessions, clips, videos, files>>
    /\ OthersUnchanged

ClipChatFindSession(r) ==
    /\ reqs[r].handler = "clip-chat" /\ reqs[r].pc = "findSession"
    /\ \/ LET i == FirstMatch(sessions,
                       {d \in Docs(sessions) : d.sessionId = reqs[r].clip.sessionId
                                            /\ d.owner = reqs[r].user})
          IN  reqs' = [reqs EXCEPT ![r].pc = "generate",
                                   ![r].session = IF i = 0 THEN NoSession ELSE sessions[i]]
       \/ reqs' = [reqs EXCEPT ![r] = ChatFailed(@)]
    /\ UNCHANGED <<sessions, clips, videos, files>>
    /\ OthersUnchanged

ClipChatGenerate(r) ==
    /\ reqs[r].handler = "clip-chat" /\ reqs[r].pc = "generate"
    /\ \E g \in ClipRuns :
          LET req == [reqs[r] EXCEPT !.invoked = g.calls # <<>>, !.session = NoSession,
                                     !.clip = NoClip]
          IN  reqs' = [reqs EXCEPT ![r] =
                          IF g.status = "thrown" THEN ChatFailed(req)
                          ELSE [req EXCEPT !.pc = "pushChat", !.text = g.result.text]]
    /\ UNCHANGED <<sessions, clips, videos, files>>
    /\ OthersUnchanged

\* await Clip.updateOne({ _id: clipId }, { $push: { chatHistory: { $each: [...] } } })
ClipChatPush(r) ==
    /\ reqs[r].handler = "clip-chat" /\ reqs[r].pc = "pushChat"
    /\ \/ LET i == FirstMatch(clips, {d \in Docs(clips) : d.id = reqs[r].clipId})
          IN  /\ clips' = IF i = 0 THEN clips
                          ELSE [clips EXCEPT ![i].chatHistory =
                                   @ \o ChatTurns(Plain("question"), reqs[r].text)]
              /\ reqs' = [reqs EXCEPT ![r] = Respond(@, 200)]
       \/ /\ reqs' = [reqs EXCEPT ![r] = ChatFailed(@)]
          /\ UNCHANGED clips
    /\ UNCHANGED <<sessions, videos, files>>
    /\ OthersUnchanged

ClipChatStep(r) ==
    \/ ClipChatFind(r) \/ ClipChatFindSession(r) \/ ClipChatGenerate(r) \/ ClipChatPush(r)

(***************************************************************************)
(* The chat endpoint under concurrent requests, on a database that holds a *)
(* session of each user, created before the clock's origin.                *)
(***************************************************************************)
InitSeeded ==
    /\ now = 0
    /\ sessions = SeedSessions
    /\ clips = SeedClips
    /\ videos = {SeedClips[i].publicId : i \in 1..Len(SeedClips)}
    /\ files = [p \in 0..MaxClock |-> 0]
    /\ reqs = [r \in ReqIds |-> NewReq]
    /\ fb = Idle
    /\ lastMerge = NoMerge

NextChat ==
    \/ Tick
    \/ \E r \in ReqIds : ChatStart(r) \/ ChatStep(r)

SpecChat == InitSeeded /\ [][NextChat]_vars

(***************************************************************************)
(* The clip endpoints under concurrent requests.                           *)
(***************************************************************************)
NextClips ==
    \E r \in ReqIds :
        \/ ClipChatStart(r) \/ ClipChatStep(r)
        \/ UpdateStart(r) \/ Update(r)
        \/ UpdateDataStart(r) \/ UpdateDataFind(r) \/ UpdateDataSave(r)
        \/ DeleteClipStart(r) \/ DeleteClipStep(r)
        \/ DeleteSessionStart(r) \/ DeleteSessionStep(r)

SpecClips == InitSeeded /\ [][NextClips]_vars

(***************************************************************************)
(* The whole service.                                                      *)
(***************************************************************************)
Next ==
    \/ Tick
    \/ \E r \in ReqIds :
          \/ ChatStart(r) \/ ChatStep(r)
          \/ CreateSessionStart(r) \/ CreateSession(r)
          \/ ReadStart(r) \/ ReadQuery(r)
          \/ ClipChatStart(r) \/ ClipChatStep(r)
          \/ UpdateStart(r) \/ Update(r)
          \/ UpdateDataStart(r) \/ UpdateDataFind(r) \/ UpdateDataSave(r)
          \/ DeleteClipStart(r) \/ DeleteClipStep(r)
          \/ DeleteSessionStart(r) \/ DeleteSessionStep(r)

Spec == InitSeeded /\ [][Next]_vars

(***************************************************************************)
(* Properties of the chat endpoint.                                        *)
(***************************************************************************)
IsVideo(r) == reqs[r].handler = "chat" /\ reqs[r].tempPath # NoPath

ClipOf(r) == {c \in Docs(clips) : c.id = reqs[r].savedClip}

\* the invoker returned a text that JSON.parse rejects
NotJson(r) == reqs[r].invoked /\ reqs[r].text # Plain("") /\ JSONparse(StripFences(reqs[r].text)).threw

(***************************************************************************)
(* C1.  No step of a request authenticated as one user changes, removes or *)
(* loads a Session or Clip of another owner, and no Clip is created under  *)
(* a Session whose owner is not the Clip's.                                *)
(***************************************************************************)
OwnerIsolation ==
    [][\A r \in ReqIds :
          reqs'[r] # reqs[r] =>
              LET caller == reqs'[r].user
              IN  /\ \A d \in Docs(sessions) \ Docs(sessions') : d.owner = caller
                  /\ \A d \in Docs(sessions') \ Docs(sessions) : d.owner = caller
                  /\ \A d \in Docs(clips) \ Docs(clips') : d.owner = caller
                  /\ \A d \in Docs(clips') \ Docs(clips) :
                        /\ d.owner = caller
                        /\ \A s \in Docs(sessions') :
                              s.sessionId = d.sessionId => s.owner = d.owner
                  /\ reqs'[r].session # NoSession => reqs'[r].session.owner = caller]_vars

(***************************************************************************)
(* C4.  A video request whose analysis text is not valid JSON carries the  *)
(* fixed error payload past the parse and on to the clip save; it does not *)
(* change any roster; if it ends in the catch block, the error is that of  *)
(* a database write that failed after the parse; once the clip is saved,   *)
(* and so when it has responded with 200, the stored Clip has the title    *)
(* "Analysis Error", both formations "Error" and the error payload with    *)
(* the fixed summary as its analysis payload.                              *)
(***************************************************************************)
Rosters(coll) == [i \in 1..Len(coll) |-> coll[i].roster]

TempPathsDistinct ==
    \A r1, r2 \in ReqIds :
        /\ r1 # r2
        /\ IsVideo(r1) /\ ~Responded(r1)
        /\ IsVideo(r2) /\ ~Responded(r2)
        => reqs[r1].tempPath # reqs[r2].tempPath

(***************************************************************************)
(* C8.  A video request has invoked generateWithFallback only after a poll *)
(* that saw a state other than PROCESSING and FAILED; after a poll that    *)
(* saw PROCESSING it waits and polls again; after one that saw FAILED it   *)
(* is in the catch block or has responded 500, has invoked no model and    *)
(* has no analysis payload, and its steps change no Session and no Clip.   *)
(***************************************************************************)
ModelOnlyAfterReadyPoll ==
    /\ [](\A r \in ReqIds :
            IsVideo(r) =>
                /\ reqs[r].invoked => reqs[r].fileState \notin {"none", "PROCESSING", "FAILED"}
                /\ reqs[r].pc \in {"analyze", "saveSession", "saveClip", "historyUser",
                                   "historyModel", "unlink"} =>
                       reqs[r].fileState \notin {"none", "PROCESSING", "FAILED"}
                /\ reqs[r].fileState = "PROCESSING" =>
                       /\ ~reqs[r].invoked
                       /\ \/ reqs[r].pc \in {"wait", "getFile"}
                          \/ reqs[r].pc \in {"catch", "done"}
                             /\ reqs[r].error = <<"getFile failed">>
                /\ reqs[r].fileState = "FAILED" =>
                       /\ reqs[r].pc \in {"catch", "done"}
                       /\ reqs[r].status \in {0, 500}
                       /\ ~reqs[r].invoked
                       /\ reqs[r].json = JsonNull
                       /\ \A c \in ClipOf(r) : c.fullData = NoData)
    /\ [][\A r \in ReqIds :
             reqs'[r] # reqs[r] /\ IsVideo(r) =>
                 /\ reqs[r].pc = "wait" => reqs'[r].pc = "getFile"
                 /\ reqs'[r].fileState \in {"PROCESSING", "FAILED"} =>
                        sessions' = sessions /\ clips' = clips]_vars

\* a request whose poll saw FAILED, answered 500
FailedPollWitness ==
    \E r \in ReqIds :
        /\ IsVideo(r) /\ reqs[r].fileState = "FAILED"
        /\ reqs[r].status = 500

(***************************************************************************)
(* C10.  Once a video request has responded, the Clip it created is not in *)
(* the placeholder state (title "Analyzing...", no analysis payload).      *)
(***************************************************************************)
NoPlaceholderAfterResponse ==
    \A r \in ReqIds :
        IsVideo(r) /\ Responded(r) =>
            \A c \in ClipOf(r) : ~(c.title = "Analyzing..." /\ c.fullData = NoData)

(***************************************************************************)
(* C5.  Once a delete-session request has finished and the caller's        *)
(* Session is gone, no Clip of that session owned by the caller exists and  *)
(* no remote video of one of the session's clips exists.                   *)
(***************************************************************************)
SessionGone(sessionId, owner) ==
    \A s \in Docs(sessions) : ~(s.sessionId = sessionId /\ s.owner = owner)

\* the stored video identifiers of the clips the session started with
VideosOf(sessionId, owner) ==
    {c.publicId : c \in {d \in Docs(SeedClips) :
                            d.sessionId = sessionId /\ d.owner = owner /\ d.publicId # 0}}

CascadeComplete ==
    \A r \in ReqIds :
        /\ reqs[r].handler = "delete-session" /\ Responded(r)
        /\ \E s \in Docs(SeedSessions) :
              s.sessionId = reqs[r].sessionId /\ s.owner = reqs[r].user
        /\ SessionGone(reqs[r].sessionId, reqs[r].user)
        => /\ \A c \in Docs(clips) :
                 ~(c.sessionId = reqs[r].sessionId /\ c.owner = reqs[r].user)
           /\ VideosOf(reqs[r].sessionId, reqs[r].user) \cap videos = {}

(***************************************************************************)
(* C9.  Every chat log is a sequence of adjacent (user, model) pairs.  A   *)
(* step changes the chat log of a clip only by appending the question and  *)
(* then the reply of a clip-chat request whose invoker call succeeded.  A  *)
(* clip-chat request whose clip is missing for the caller, or has no       *)
(* analysis payload, answers "Analysis needed first." having called no     *)
(* model, and one whose models all failed answers 500; neither changes a   *)
(* chat log.                                                               *)
(***************************************************************************)
PairedTurns(log) ==
    /\ Len(log) % 2 = 0
    /\ \A i \in 1..Len(log) : log[i].role = IF i % 2 = 1 THEN "user" ELSE "model"

IsClipChat(r) == reqs[r].handler = "clip-chat"

\* what the clip-chat request finds for its caller
VisibleClip(r) ==
    {c \in Docs(clips) : c.id = reqs[r].clipId /\ c.owner = reqs[r].user}

ClipChatAppendsPairs ==
    /\ [](/\ \A c \in Docs(clips) : PairedTurns(c.chatHistory)
          /\ \A r \in ReqIds :
                IsClipChat(r) =>
                    /\ reqs[r].pc = "pushChat" =>
                           reqs[r].invoked /\ reqs[r].text \in ResponseTexts
                    /\ reqs[r].text = AnalysisNeeded =>
                           ~reqs[r].invoked /\ reqs[r].status = 200
                    /\ reqs[r].error = <<"Chat failed">> => reqs[r].status = 500)
    /\ [][/\ \A i \in 1..Len(clips), j \in 1..Len(clips') :
                clips[i].id = clips'[j].id /\ clips[i].chatHistory # clips'[j].chatHistory =>
                    \E r \in ReqIds :
                        /\ IsClipChat(r) /\ reqs[r].pc = "pushChat" /\ reqs[r].invoked
                        /\ reqs[r].clipId = clips[i].id
                        /\ Responded(r)' /\ reqs'[r].status = 200
                        /\ clips'[j].chatHistory =
                              clips[i].chatHistory
                                  \o <<[role |-> "user", text |-> Plain("question")],
                                       [role |-> "model", text |-> reqs[r].text]>>
          /\ \A r \in ReqIds :
                IsClipChat(r) /\ reqs'[r] # reqs[r] =>
                    /\ reqs[r].pc = "findClip"
                       /\ (\A c \in VisibleClip(r) : c.fullData = NoData) =>
                           /\ Responded(r)' /\ clips' = clips
                           /\ reqs'[r].status = 200 => reqs'[r].text = AnalysisNeeded
                    /\ reqs[r].pc = "generate" /\ reqs'[r].pc # "pushChat" =>
                           reqs'[r].status = 500 /\ clips' = clips]_vars

\* two clip-chat requests on the same clip have both appended their pair
ClipChatWitness ==
    /\ \A r \in ReqIds : IsClipChat(r) /\ reqs[r].status = 200 /\ reqs[r].invoked
    /\ \E c \in Docs(clips) : c.id = 101 /\ Len(c.chatHistory) = 4

====
